---- MODULE Spec2Model ----
(***************************************************************************)
(* FileDock Suite: the file organization and integrity engine.             *)
(*                                                                         *)
(* The model covers one target folder with its category subfolders, the    *)
(* persisted undo journal (undo_log.json), and the two mutating operations *)
(* organize_folder and undo_last_operation together with the helpers they  *)
(* call (find_category, safe_move, save_undo, load_undo).  Both operations *)
(* run on the single GUI thread, one at a time; each loop iteration is one *)
(* step, and nothing else touches the folder while an operation runs.      *)
(* Between operations the user may add files to the folder, delete files   *)
(* from the category subfolders, or damage the journal file.               *)
(*                                                                         *)
(* An iteration fails when the filesystem state makes a call raise (mkdir  *)
(* over a regular file, a journal item without its keys).  Refusals by the *)
(* operating system (permissions, I/O errors) are not modelled.            *)
(*                                                                         *)
(* Three further specifications cover the parts that do not depend on the  *)
(* organizer's state: SpecCategory (find_category over the mappings that   *)
(* config.json may hold), SpecDuplicates (one call of find_duplicates,     *)
(* entry by entry) and SpecView (render_duplicates with its worker threads *)
(* and the on_done callbacks they hand to the GUI thread).                 *)
(***************************************************************************)
EXTENDS Integers, Sequences, FiniteSets, TLC

\* Number of files the user ever puts into the folder (file ids 1..MaxFiles).
MaxFiles == 3

\* Number of organize runs and undo runs started in one behaviour.
MaxRuns == 3

VARIABLES
    fs,          \* the files under the folder: path -> file id (its content)
    dirs,        \* the category subfolders that exist in the folder
    UNDO_FILE,   \* content of undo_log.json
    pc,          \* "idle", "organize" (in the loop), "undo" (in the loop)
    items,       \* organize: the list `items`; undo: reversed(moves)
    done,        \* number of entries of `items` the running loop has processed
    moves,       \* organize: the local list `moves`
    errors,      \* number of entries of the local list `errors`
    restored,    \* undo: the local counter `restored`
    result,      \* what the operation that has just returned gave back
    nextId,      \* id of the next file the user creates
    runs,        \* operations started so far
    listed,      \* history: iterdir() of the running organize did not raise
    startFs,     \* history: fs when the running operation started
    skipped,     \* history: records skipped (file gone) by the undo loop running or just run
    appeared,    \* history: paths where the user created a file since the last journal write
    trip,        \* history: "none", "organized" (journal written, only creations since), "undone"
    undone       \* history: an undo consumed the journal and no organize ran since

\* find_category and the category mapping it reads
VARIABLES
    categories,  \* the dict CATEGORIES as loaded from config.json
    query,       \* the extension find_category was called with
    answer       \* what that call returned ("" before any call)

\* one call of find_duplicates
VARIABLES
    entries,     \* what folder.iterdir() yields, in order
    scanned,     \* number of entries the loop has processed
    map_hash,    \* the local dict map_hash: hash -> first path seen with it
    dup,         \* the local dict dup: hash -> list of paths
    returned     \* find_duplicates has returned dup

\* the duplicates view and its background scans
VARIABLES
    dup_frame,   \* the scan whose widgets are in views["duplicates"] (0: none)
    tv,          \* per scan, its Treeview and status label
    workers,     \* per scan, its worker thread
    after        \* Tk's queue of root.after(0, ...) callbacks

organizerVars ==
    <<fs, dirs, UNDO_FILE, pc, items, done, moves, errors, restored,
      result, nextId, runs, listed, startFs, skipped, appeared, trip, undone>>

categoryVars == <<categories, query, answer>>

duplicateVars == <<entries, scanned, map_hash, dup, returned>>

viewVars == <<dup_frame, tv, workers, after>>

vars == <<organizerVars, categoryVars, duplicateVars, viewVars>>

-----------------------------------------------------------------------------
(* Paths.  A path is [dir, stem, suffix]: dir is "" for an immediate child *)
(* of the folder and a category name for a child of that subfolder; stem   *)
(* and suffix are pathlib's Path.stem and Path.suffix (suffix as a tuple   *)
(* of characters, <<>> when the name has none).                            *)

NoSuffix == <<>>
txt == <<".", "t", "x", "t">>
TXT == <<".", "T", "X", "T">>

Top(stem, suffix) == [dir |-> "", stem |-> stem, suffix |-> suffix]

\* config.json: DOCS lists ".txt"; OTHERS is synthesized empty when missing.
CATEGORIES == [DOCS |-> {txt}, OTHERS |-> {}]

\* dict iteration order of CATEGORIES
CategoryOrder == <<"DOCS", "OTHERS">>

\* The file names the user may create in the folder.
UserNames ==
    { Top("a", TXT), Top("a_restored1", TXT),
      Top("DOCS", NoSuffix), Top("OTHERS", NoSuffix) }

\* str.lower() on one character
LowerChar(c) ==
    CASE c = "T" -> "t"
      [] c = "X" -> "x"
      [] OTHER   -> c

Lower(s) == [i \in DOMAIN s |-> LowerChar(s[i])]

\* Lines 60-63 over a dict cats = [order, exts]: order is the dict's key
\* order, exts maps each key to the entries of its list.
RECURSIVE FirstCategory(_, _, _)
FirstCategory(cats, ext, i) ==
    IF i > Len(cats.order) THEN "OTHERS"
    ELSE IF ext \in cats.exts[cats.order[i]] THEN cats.order[i]
    ELSE FirstCategory(cats, ext, i + 1)

\* find_category(ext) when the global CATEGORIES holds cats
FindCategoryIn(cats, ext) == FirstCategory(cats, Lower(ext), 1)

find_category(ext) == FindCategoryIn([order |-> CategoryOrder, exts |-> CATEGORIES], ext)

-----------------------------------------------------------------------------
(* The filesystem primitives the code relies on.                           *)

IsDir(dirsx, p) == p.dir = "" /\ p.suffix = NoSuffix /\ p.stem \in dirsx

\* Path.exists()
Exists(fsx, dirsx, p) == p \in DOMAIN fsx \/ IsDir(dirsx, p)

\* Path.mkdir(parents=True, exist_ok=True) on folder/cat raises FileExistsError
\* when a regular file of that name is in the way.
MkdirFails(fsx, cat) == Top(cat, NoSuffix) \in DOMAIN fsx

\* Path.rename raises when the source is gone, the target is a directory or
\* the target's parent directory is missing.
RenameFails(fsx, dirsx, src, dst) ==
    \/ src \notin DOMAIN fsx
    \/ IsDir(dirsx, dst)
    \/ (dst.dir # "" /\ dst.dir \notin dirsx)

\* Path.rename (os.rename): the source entry disappears, the target entry
\* now holds the file; a file already at the target is replaced.
Rename(fsx, src, dst) ==
    [p \in (DOMAIN fsx \ {src}) \cup {dst} |-> IF p = dst THEN fsx[src] ELSE fsx[p]]

-----------------------------------------------------------------------------
(* safe_move                                                               *)

\* dest.parent / f"{base}_dup{i}{suf}"
DupCandidate(dest, i) ==
    [dir |-> dest.dir, stem |-> dest.stem \o "_dup" \o ToString(i), suffix |-> dest.suffix]

\* the `while True` loop: the first i whose candidate does not exist
RECURSIVE DupSearch(_, _, _, _)
DupSearch(fsx, dirsx, dest, i) ==
    IF ~Exists(fsx, dirsx, DupCandidate(dest, i)) THEN DupCandidate(dest, i)
    ELSE DupSearch(fsx, dirsx, dest, i + 1)

\* safe_move without the existence checks of lines 68 and 76
MoveTargetUnchecked(fsx, dirsx, dest) == dest

\* the path safe_move renames src to
MoveTarget(fsx, dirsx, dest) ==
    IF ~Exists(fsx, dirsx, dest) THEN dest ELSE DupSearch(fsx, dirsx, dest, 1)

\* safe_move(src, dest): [ok, fs, dirs, path]; ok = FALSE when it raises
safe_move(fsx, dirsx, src, dest) ==
    IF MkdirFails(fsx, dest.dir)
    THEN [ok |-> FALSE, fs |-> fsx, dirs |-> dirsx, path |-> src]
    ELSE LET d2 == dirsx \cup {dest.dir}
             target == MoveTarget(fsx, d2, dest)
         IN  IF RenameFails(fsx, d2, src, target)
             THEN [ok |-> FALSE, fs |-> fsx, dirs |-> d2, path |-> src]
             ELSE [ok |-> TRUE, fs |-> Rename(fsx, src, target), dirs |-> d2,
                   path |-> target]

-----------------------------------------------------------------------------
(* The undo journal.  The content of undo_log.json is a record              *)
(*   kind      "absent"  no file                                           *)
(*             "text"    not JSON (json.loads raises)                      *)
(*             "falsy"   JSON that Python treats as false: null, 0, "",    *)
(*                       [], {}                                            *)
(*             "truthy"  any other JSON value that is not an object        *)
(*             "object"  a non-empty JSON object                           *)
(*   timestamp           the object has a "timestamp" key                  *)
(*   movesKind "missing" no "moves" key; "scalar" a number, true or null;  *)
(*             "list"    a list                                            *)
(*   moves               the list's items: [ok, orig, new], ok = FALSE for *)
(*                       an item without "orig"/"new" keys                 *)

Journal(kind, timestamp, movesKind, ms) ==
    [kind |-> kind, timestamp |-> timestamp, movesKind |-> movesKind, moves |-> ms]

NoJournal == Journal("absent", FALSE, "missing", <<>>)

MoveRecord(orig, new) == [ok |-> TRUE, orig |-> orig, new |-> new]

\* save_undo(moves): json.dump({"timestamp": ..., "moves": moves})
save_undo(ms) == Journal("object", TRUE, "list", ms)

\* load_undo(): the parsed value, or None (kind "absent") when the file is
\* missing or json.loads raises
load_undo(file) == IF file.kind \in {"absent", "text"} THEN NoJournal ELSE file

\* `not data`
Falsy(data) == data.kind \in {"absent", "falsy"}

\* data.get raises AttributeError on a non-object; reversed() raises
\* TypeError on a value that is no sequence
UndoRaises(data) ==
    \/ data.kind = "truthy"
    \/ (data.kind = "object" /\ data.movesKind = "scalar")

\* data.get("moves", [])
MovesOf(data) == IF data.movesKind = "list" THEN data.moves ELSE <<>>

\* reversed(moves)
Reverse(s) == [i \in 1..Len(s) |-> s[Len(s) + 1 - i]]

\* a journal as save_undo writes it
WellFormed(file) ==
    /\ file.kind = "object"
    /\ file.timestamp
    /\ file.movesKind = "list"
    /\ \A i \in 1..Len(file.moves) : file.moves[i].ok

\* orig.with_name(f"{base}_restored{i}{suf}")
RestoredCandidate(orig, i) ==
    [dir |-> orig.dir, stem |-> orig.stem \o "_restored" \o ToString(i),
     suffix |-> orig.suffix]

\* the loop of lines 190-194 when it never looks at the filesystem
RestoredSearchUnchecked(fsx, dirsx, orig, i) == RestoredCandidate(orig, i)

\* the loop of lines 190-194 when it tests the candidate only after `i += 1`
RECURSIVE RestoredSearchOffByOne(_, _, _, _)
RestoredSearchOffByOne(fsx, dirsx, orig, i) ==
    IF ~Exists(fsx, dirsx, RestoredCandidate(orig, i + 1))
    THEN RestoredCandidate(orig, i + 1)
    ELSE RestoredSearchOffByOne(fsx, dirsx, orig, i + 1)

\* the `while candidate.exists()` loop
RECURSIVE RestoredSearch(_, _, _, _)
RestoredSearch(fsx, dirsx, orig, i) ==
    IF ~Exists(fsx, dirsx, RestoredCandidate(orig, i)) THEN RestoredCandidate(orig, i)
    ELSE RestoredSearch(fsx, dirsx, orig, i + 1)

\* undo without the orig.exists() check of line 187
RestoreTargetUnchecked(fsx, dirsx, orig) == orig

\* the path undo renames the moved file to
RestoreTarget(fsx, dirsx, orig) ==
    IF Exists(fsx, dirsx, orig) THEN RestoredSearch(fsx, dirsx, orig, 1) ELSE orig

-----------------------------------------------------------------------------
(* Results                                                                 *)

NoResult == [op |-> "none", count |-> 0, errors |-> 0, msg |-> "", raised |-> FALSE]

OrganizeResult(n, e) ==
    [op |-> "organize", count |-> n, errors |-> e, msg |-> "", raised |-> FALSE]

UndoResult(n, e, msg) ==
    [op |-> "undo", count |-> n, errors |-> e, msg |-> msg, raised |-> FALSE]

UndoRaised == [op |-> "undo", count |-> 0, errors |-> 0, msg |-> "", raised |-> TRUE]

NoUndoData == "No undo data found."
RestoredMsg == "Restored N files."
RestoredWithErrorsMsg == "Restored N files. Some errors occurred; check error.log."

-----------------------------------------------------------------------------
EmptyFs == [p \in {} |-> 0]

\* nothing running in the organizer
OrganizerInit ==
    /\ fs = EmptyFs
    /\ dirs = {}
    /\ UNDO_FILE = NoJournal
    /\ pc = "idle"
    /\ items = <<>>
    /\ done = 0
    /\ moves = <<>>
    /\ errors = 0
    /\ restored = 0
    /\ result = NoResult
    /\ nextId = 1
    /\ runs = 0
    /\ listed = TRUE
    /\ startFs = EmptyFs
    /\ skipped = 0
    /\ appeared = {}
    /\ trip = "none"
    /\ undone = FALSE

\* find_category not called
CategoryIdle ==
    /\ categories = [order |-> CategoryOrder, exts |-> CATEGORIES]
    /\ query = NoSuffix
    /\ answer = ""

\* find_duplicates not called
DuplicateIdle ==
    /\ entries = <<>>
    /\ scanned = 0
    /\ map_hash = <<>>
    /\ dup = <<>>
    /\ returned = FALSE

\* the duplicates view never rendered
ViewIdle ==
    /\ dup_frame = 0
    /\ tv = <<>>
    /\ workers = <<>>
    /\ after = <<>>

Init == OrganizerInit /\ CategoryIdle /\ DuplicateIdle /\ ViewIdle

-----------------------------------------------------------------------------
(* The user, between operations                                            *)

\* The user puts a new file into the folder under a free name.
EnvCreate(p) ==
    /\ pc = "idle"
    /\ nextId <= MaxFiles
    /\ ~Exists(fs, dirs, p)
    /\ fs' = [q \in DOMAIN fs \cup {p} |-> IF q = p THEN nextId ELSE fs[q]]
    /\ nextId' = nextId + 1
    /\ appeared' = IF trip = "organized" THEN appeared \cup {p} ELSE appeared
    /\ result' = NoResult
    /\ skipped' = 0
    /\ UNCHANGED <<dirs, UNDO_FILE, pc, items, done, moves, errors, restored,
                   runs, listed, startFs, trip, undone>>
    /\ UNCHANGED <<categoryVars, duplicateVars, viewVars>>

\* The user deletes a file from a category subfolder.
EnvDelete(p) ==
    /\ pc = "idle"
    /\ p \in DOMAIN fs
    /\ p.dir # ""
    /\ fs' = [q \in DOMAIN fs \ {p} |-> fs[q]]
    /\ trip' = "none"
    /\ appeared' = {}
    /\ result' = NoResult
    /\ skipped' = 0
    /\ UNCHANGED <<dirs, UNDO_FILE, pc, items, done, moves, errors, restored,
                   nextId, runs, listed, startFs, undone>>
    /\ UNCHANGED <<categoryVars, duplicateVars, viewVars>>

\* What undo_log.json may hold after a journal written by save_undo was
\* damaged (a torn write, a hand edit).
Damaged(file) ==
    IF WellFormed(file)
    THEN { Journal("text", FALSE, "missing", <<>>),
           Journal("falsy", FALSE, "missing", <<>>),
           Journal("truthy", FALSE, "missing", <<>>),
           Journal("object", TRUE, "missing", <<>>),
           Journal("object", TRUE, "scalar", <<>>),
           Journal("object", FALSE, "list", file.moves),
           Journal("object", TRUE, "list",
                   [file.moves EXCEPT ![1] = [@ EXCEPT !.ok = FALSE]]) }
    ELSE {}

EnvDamageJournal(c) ==
    /\ pc = "idle"
    /\ c \in Damaged(UNDO_FILE)
    /\ UNDO_FILE' = c
    /\ trip' = "none"
    /\ appeared' = {}
    /\ undone' = FALSE
    /\ result' = NoResult
    /\ skipped' = 0
    /\ UNCHANGED <<fs, dirs, pc, items, done, moves, errors, restored, nextId, runs, listed, startFs>>
    /\ UNCHANGED <<categoryVars, duplicateVars, viewVars>>

-----------------------------------------------------------------------------
(* organize_folder                                                         *)

\* line 146 when the enumeration descends into the subfolders (rglob)
AllFiles(fsx) == DOMAIN fsx

\* the immediate file children of the folder
TopFiles(fsx) == {p \in DOMAIN fsx : p.dir = ""}

\* the orders in which iterdir() may yield a set of entries
Orders(S) ==
    {o \in [1..Cardinality(S) -> S] : \A i, j \in 1..Cardinality(S) : o[i] = o[j] => i = j}

\* Lines 143-148 and 166-168.  isDir = FALSE: the chosen path exists but is
\* no directory, so iterdir() raises and the outer handler records one error.
OrganizeStart(isDir, order) ==
    /\ pc = "idle"
    /\ runs < MaxRuns
    /\ IF isDir
       THEN /\ order \in Orders(TopFiles(fs))
            /\ items' = order
            /\ errors' = 0
       ELSE /\ items' = <<>>
            /\ errors' = 1
    /\ listed' = isDir
    /\ done' = 0
    /\ moves' = <<>>
    /\ pc' = "organize"
    /\ runs' = runs + 1
    /\ startFs' = fs
    /\ undone' = FALSE
    /\ trip' = "none"
    /\ appeared' = {}
    /\ UNCHANGED <<fs, dirs, UNDO_FILE, restored, result, nextId, skipped>>
    /\ UNCHANGED <<categoryVars, duplicateVars, viewVars>>

\* folder / cat / p.name
DestOf(p) == [dir |-> find_category(p.suffix), stem |-> p.stem, suffix |-> p.suffix]

\* lines 150-159 when the record is appended although mkdir raised
MoveOneRecordsFailure(fsx, dirsx, p) ==
    IF MkdirFails(fsx, find_category(p.suffix))
    THEN [ok |-> TRUE, fs |-> fsx, dirs |-> dirsx, path |-> DestOf(p)]
    ELSE safe_move(fsx, dirsx \cup {find_category(p.suffix)}, p, DestOf(p))

\* Lines 150-159 for one file p: [ok, fs, dirs, path]; ok = FALSE when the
\* body raised
MoveOne(fsx, dirsx, p) ==
    IF MkdirFails(fsx, find_category(p.suffix))
    THEN [ok |-> FALSE, fs |-> fsx, dirs |-> dirsx, path |-> p]
    ELSE safe_move(fsx, dirsx \cup {find_category(p.suffix)}, p, DestOf(p))

\* One iteration of the loop at line 149.
OrganizeStep ==
    /\ pc = "organize"
    /\ done < Len(items)
    /\ LET p == items[done + 1]
           r == MoveOne(fs, dirs, p)
       IN  /\ fs' = r.fs
           /\ dirs' = r.dirs
           /\ moves' = IF r.ok THEN Append(moves, MoveRecord(p, r.path)) ELSE moves
           /\ errors' = IF r.ok THEN errors ELSE errors + 1
    /\ done' = done + 1
    /\ UNCHANGED <<UNDO_FILE, pc, items, restored, result, nextId, runs, listed,
                   startFs, skipped, appeared, trip, undone>>
    /\ UNCHANGED <<categoryVars, duplicateVars, viewVars>>

\* lines 169-170 without the `if moves` test
JournalAlwaysSaved(file, ms) == save_undo(ms)

\* lines 169-170 when the new moves are added to the journal already there
JournalAppended(file, ms) == IF ms # <<>> THEN save_undo(file.moves \o ms) ELSE file

\* what lines 169-170 leave in undo_log.json
JournalAfterOrganize(file, ms) == IF ms # <<>> THEN save_undo(ms) ELSE file

\* Lines 169-171.
OrganizeFinish ==
    /\ pc = "organize"
    /\ done = Len(items)
    /\ UNDO_FILE' = JournalAfterOrganize(UNDO_FILE, moves)
    /\ result' = OrganizeResult(Len(moves), errors)
    /\ pc' = "idle"
    /\ trip' = IF moves # <<>> THEN "organized" ELSE "none"
    /\ items' = <<>>
    /\ done' = 0
    /\ moves' = <<>>
    /\ errors' = 0
    /\ listed' = TRUE
    /\ startFs' = EmptyFs
    /\ UNCHANGED <<fs, dirs, restored, nextId, runs, skipped, appeared, undone>>
    /\ UNCHANGED <<categoryVars, duplicateVars, viewVars>>

-----------------------------------------------------------------------------
(* undo_last_operation                                                     *)

\* Lines 174-179.
UndoStart ==
    /\ pc = "idle"
    /\ runs < MaxRuns
    /\ runs' = runs + 1
    /\ LET data == load_undo(UNDO_FILE)
       IN  IF Falsy(data)
           THEN /\ result' = UndoResult(0, 0, NoUndoData)
                /\ UNCHANGED <<pc, items, startFs, skipped>>
           ELSE IF UndoRaises(data)
           THEN /\ result' = UndoRaised
                /\ UNCHANGED <<pc, items, startFs, skipped>>
           ELSE /\ pc' = "undo"
                /\ items' = Reverse(MovesOf(data))
                /\ startFs' = fs
                /\ skipped' = 0
                /\ UNCHANGED result
    /\ UNCHANGED <<fs, dirs, UNDO_FILE, done, moves, errors, restored, nextId,
                   listed, appeared, trip, undone>>
    /\ UNCHANGED <<categoryVars, duplicateVars, viewVars>>

\* lines 182-201 when `restored += 1` sits outside `if new.exists()`
RestoreOneCountsSkipped(fsx, dirsx, m) ==
    IF ~m.ok THEN [outcome |-> "error", fs |-> fsx]
    ELSE IF ~Exists(fsx, dirsx, m.new) THEN [outcome |-> "restored", fs |-> fsx]
    ELSE [outcome |-> "restored",
          fs |-> Rename(fsx, m.new, RestoreTarget(fsx, dirsx, m.orig))]

\* Lines 182-201 for one record m: [outcome, fs]
RestoreOne(fsx, dirsx, m) ==
    IF ~m.ok THEN [outcome |-> "error", fs |-> fsx]
    ELSE IF ~Exists(fsx, dirsx, m.new) THEN [outcome |-> "skipped", fs |-> fsx]
    ELSE IF RenameFails(fsx, dirsx, m.new, RestoreTarget(fsx, dirsx, m.orig))
    THEN [outcome |-> "error", fs |-> fsx]
    ELSE [outcome |-> "restored",
          fs |-> Rename(fsx, m.new, RestoreTarget(fsx, dirsx, m.orig))]

\* One iteration of the loop at line 181.
UndoStep ==
    /\ pc = "undo"
    /\ done < Len(items)
    /\ LET r == RestoreOne(fs, dirs, items[done + 1])
       IN  /\ fs' = r.fs
           /\ restored' = IF r.outcome = "restored" THEN restored + 1 ELSE restored
           /\ errors' = IF r.outcome = "error" THEN errors + 1 ELSE errors
           /\ skipped' = IF r.outcome = "skipped" THEN skipped + 1 ELSE skipped
    /\ done' = done + 1
    /\ UNCHANGED <<dirs, UNDO_FILE, pc, items, moves, result, nextId, runs, listed,
                   startFs, appeared, trip, undone>>
    /\ UNCHANGED <<categoryVars, duplicateVars, viewVars>>

\* lines 202-206 when the journal is not removed
JournalKept(file) == file

\* Lines 202-206: UNDO_FILE.unlink()
JournalAfterUndo(file) == NoJournal

\* Lines 207-209: the summary message
UndoMessage(errs) == IF errs > 0 THEN RestoredWithErrorsMsg ELSE RestoredMsg

\* Lines 202-210.
UndoFinish ==
    /\ pc = "undo"
    /\ done = Len(items)
    /\ UNDO_FILE' = JournalAfterUndo(UNDO_FILE)
    /\ result' = UndoResult(restored, errors, UndoMessage(errors))
    /\ pc' = "idle"
    /\ trip' = IF trip = "organized" THEN "undone" ELSE "none"
    /\ undone' = TRUE
    /\ items' = <<>>
    /\ done' = 0
    /\ errors' = 0
    /\ restored' = 0
    /\ startFs' = EmptyFs
    /\ UNCHANGED <<fs, dirs, moves, nextId, runs, listed, skipped, appeared>>
    /\ UNCHANGED <<categoryVars, duplicateVars, viewVars>>

-----------------------------------------------------------------------------
Next ==
    \/ \E p \in UserNames : EnvCreate(p)
    \/ \E p \in DOMAIN fs : EnvDelete(p)
    \/ \E c \in Damaged(UNDO_FILE) : EnvDamageJournal(c)
    \/ \E isDir \in BOOLEAN :
         \E order \in (IF isDir THEN Orders(TopFiles(fs)) ELSE {<<>>}) :
            OrganizeStart(isDir, order)
    \/ OrganizeStep
    \/ OrganizeFinish
    \/ UndoStart
    \/ UndoStep
    \/ UndoFinish

Spec == Init /\ [][Next]_vars

-----------------------------------------------------------------------------
(* find_category over the category mappings config.json may hold            *)

\* Entries a category list of config.json holds at most.
MaxListed == 2

\* The extensions that are listed in config.json or queried.
ExtPool ==
    { NoSuffix, <<".", "t">>, <<".", "T">>, <<".", "x">>, <<".", "X">>, txt, TXT }

\* The key orders of the object in config.json.
ConfigOrders == { <<"DOCS", "IMAGES">>, <<"DOCS", "OTHERS">>, <<"OTHERS", "DOCS">> }

Range(s) == {s[i] : i \in DOMAIN s}

\* The well-formed contents of config.json: category name -> list of extensions.
ConfigFiles ==
    UNION { { [order |-> o, exts |-> e] :
                e \in [Range(o) -> {l \in SUBSET ExtPool : Cardinality(l) <= MaxListed}] } :
            o \in ConfigOrders }

\* Lines 37-46: json.load, then OTHERS is added with an empty list when the
\* file has no such key.
LoadCategories(file) ==
    IF "OTHERS" \in Range(file.order) THEN file
    ELSE [order |-> Append(file.order, "OTHERS"),
          exts |-> [c \in Range(file.order) \cup {"OTHERS"} |->
                      IF c = "OTHERS" THEN {} ELSE file.exts[c]]]

CategoryInit ==
    /\ categories \in {LoadCategories(file) : file \in ConfigFiles}
    /\ query = NoSuffix
    /\ answer = ""

\* One call find_category(e).
FindCategory(e) ==
    /\ query' = e
    /\ answer' = FindCategoryIn(categories, e)
    /\ UNCHANGED <<categories, organizerVars, duplicateVars, viewVars>>

InitCategory == OrganizerInit /\ CategoryInit /\ DuplicateIdle /\ ViewIdle

NextCategory == \E e \in ExtPool : FindCategory(e)

SpecCategory == InitCategory /\ [][NextCategory]_vars

-----------------------------------------------------------------------------
(* find_duplicates.  An entry of the folder is named by its position in    *)
(* the order folder.iterdir() yields it; is_file is what p.is_file() gives *)
(* and md5 what md5_of_file(p) returns: a digest, or None when the file    *)
(* could not be read.                                                      *)

\* Entries folder.iterdir() yields at most.
MaxEntries == 4

\* md5_of_file(p) when reading p raised
None == "None"

\* The digests md5_of_file returns.
Hashes == {"h1", "h2"}

Entry(isFile, md5) == [is_file |-> isFile, md5 |-> md5]

EntryShapes == {Entry(TRUE, h) : h \in Hashes \cup {None}} \cup {Entry(FALSE, None)}

\* What folder.iterdir() may yield.
Listings == UNION {[1..n -> EntryShapes] : n \in 0..MaxEntries}

\* dup.setdefault(h, []).append(p)
Appended(d, h, p) ==
    IF h \in DOMAIN d THEN [d EXCEPT ![h] = Append(@, p)] ELSE d @@ (h :> <<p>>)

\* lines 238-239: if first not in dup[h]: dup[h].insert(0, first)
WithFirst(d, h, first) ==
    IF first \in Range(d[h]) THEN d ELSE [d EXCEPT ![h] = <<first>> \o @]

\* lines 236-239 without the insertion of the first occurrence
AddDuplicateWithoutFirst(d, h, p, first) == Appended(d, h, p)

\* lines 236-239: p has the digest h that `first` had before it
AddDuplicate(d, h, p, first) == WithFirst(Appended(d, h, p), h, first)

\* Lines 231-241 for entry p of listing: the dicts [map_hash, dup] after it
ScanEntry(mh, d, listing, p) ==
    LET h == listing[p].md5
    IN  IF ~listing[p].is_file \/ h = None THEN [map_hash |-> mh, dup |-> d]
        ELSE IF h \in DOMAIN mh
        THEN [map_hash |-> mh, dup |-> AddDuplicate(d, h, p, mh[h])]
        ELSE [map_hash |-> mh @@ (h :> p), dup |-> d]

\* the loop of line 230 from entry p on
RECURSIVE ScanFrom(_, _, _, _)
ScanFrom(mh, d, listing, p) ==
    IF p > Len(listing) THEN d
    ELSE LET r == ScanEntry(mh, d, listing, p)
         IN  ScanFrom(r.map_hash, r.dup, listing, p + 1)

\* find_duplicates(folder) as one call, folder.iterdir() yielding listing
find_duplicates(listing) == ScanFrom(<<>>, <<>>, listing, 1)

DuplicateInit ==
    /\ entries \in Listings
    /\ scanned = 0
    /\ map_hash = <<>>
    /\ dup = <<>>
    /\ returned = FALSE

\* One iteration of the loop at line 230.
DuplicateStep ==
    /\ ~returned
    /\ scanned < Len(entries)
    /\ LET r == ScanEntry(map_hash, dup, entries, scanned + 1)
       IN  /\ map_hash' = r.map_hash
           /\ dup' = r.dup
    /\ scanned' = scanned + 1
    /\ UNCHANGED <<entries, returned, organizerVars, categoryVars, viewVars>>

\* Line 244.
DuplicateReturn ==
    /\ ~returned
    /\ scanned = Len(entries)
    /\ returned' = TRUE
    /\ UNCHANGED <<entries, scanned, map_hash, dup, organizerVars, categoryVars, viewVars>>

InitDuplicates == OrganizerInit /\ CategoryIdle /\ DuplicateInit /\ ViewIdle

NextDuplicates == DuplicateStep \/ DuplicateReturn

SpecDuplicates == InitDuplicates /\ [][NextDuplicates]_vars

-----------------------------------------------------------------------------
(* render_duplicates.  Each call that starts a scan gets the next number   *)
(* k: its widgets are tv[k], its thread is workers[k], and its closure     *)
(* on_done is the entry k of Tk's callback queue.  render_duplicates and   *)
(* on_done run on the GUI thread, one at a time; the workers run beside    *)
(* it.                                                                     *)

\* Scans started in one behaviour.
MaxScans == 3

ScanningText == "Scanning for duplicates..."
CompleteText == "Scan complete - N file entries."
NoDuplicatesText == "No duplicates found."

\* What the folder may hold when a worker reads it.
ScanFolders ==
    { <<Entry(TRUE, "h1"), Entry(TRUE, "h1")>>,
      <<Entry(TRUE, "h1")>>,
      <<Entry(TRUE, "h1"), Entry(TRUE, "h2"), Entry(TRUE, "h2")>> }

\* lines 673-675: the rows tv.insert adds for a result, (hash, rank, path)
Rows(res) == UNION {{<<h, i, res[h][i]>> : i \in 1..Len(res[h])} : h \in DOMAIN res}

\* lines 649-661: the widgets a call creates
NewWidgets == [exists |-> TRUE, rows |-> {}, status |-> ScanningText]

\* clear_frame: w.destroy() for every child of the frame
Destroyed(w) == [w EXCEPT !.exists = FALSE]

\* on_done that looks the Treeview up in views["duplicates"] when it runs
WidgetsInFrame(frame, k) == frame

\* the widgets on_done of scan k writes to: those its closure captured
OnDoneWidgets(frame, k) == k

\* Lines 640-646 when no folder is selected or it does not exist: the frame
\* is cleared and only a label is shown.
RenderWithoutFolder ==
    /\ dup_frame # 0
    /\ dup_frame' = 0
    /\ tv' = [j \in DOMAIN tv |-> Destroyed(tv[j])]
    /\ UNCHANGED <<workers, after, organizerVars, categoryVars, duplicateVars>>

\* Lines 640-661 and 705-708: the frame is cleared, new widgets are made
\* and a worker thread is started.
RenderDuplicates ==
    /\ Len(workers) < MaxScans
    /\ LET k == Len(workers) + 1
       IN  /\ dup_frame' = k
           /\ tv' = [j \in 1..k |-> IF j = k THEN NewWidgets ELSE Destroyed(tv[j])]
           /\ workers' = Append(workers, [pc |-> "scan", result |-> <<>>])
    /\ UNCHANGED <<after, organizerVars, categoryVars, duplicateVars>>

\* Lines 665-669 in worker k: result = find_duplicates(Path(folder_path))
WorkerScan(k, listing) ==
    /\ workers[k].pc = "scan"
    /\ workers' = [workers EXCEPT ![k] = [pc |-> "post", result |-> find_duplicates(listing)]]
    /\ UNCHANGED <<dup_frame, tv, after, organizerVars, categoryVars, duplicateVars>>

\* Line 703 in worker k: root.after(0, on_done)
WorkerPost(k) ==
    /\ workers[k].pc = "post"
    /\ after' = Append(after, k)
    /\ workers' = [workers EXCEPT ![k].pc = "exit"]
    /\ UNCHANGED <<dup_frame, tv, organizerVars, categoryVars, duplicateVars>>

\* Lines 672-701 on the GUI thread: the oldest queued on_done runs.  On
\* destroyed widgets tv.insert or tv.get_children raises TclError and the
\* callback ends there.
OnDone ==
    /\ after # <<>>
    /\ after' = Tail(after)
    /\ LET k == Head(after)
           w == OnDoneWidgets(dup_frame, k)
           res == workers[k].result
       IN  IF w \in DOMAIN tv /\ tv[w].exists
           THEN tv' = [tv EXCEPT ![w] =
                         [exists |-> TRUE, rows |-> @.rows \cup Rows(res),
                          status |-> IF @.rows \cup Rows(res) # {}
                                     THEN CompleteText ELSE NoDuplicatesText]]
           ELSE UNCHANGED tv
    /\ UNCHANGED <<dup_frame, workers, organizerVars, categoryVars, duplicateVars>>

InitView == OrganizerInit /\ CategoryIdle /\ DuplicateIdle /\ ViewIdle

NextView ==
    \/ RenderWithoutFolder
    \/ RenderDuplicates
    \/ \E k \in DOMAIN workers : \E listing \in ScanFolders : WorkerScan(k, listing)
    \/ \E k \in DOMAIN workers : WorkerPost(k)
    \/ OnDone

SpecView == InitView /\ [][NextView]_vars

-----------------------------------------------------------------------------
(* Vocabulary of the properties                                            *)

\* the steps of the two operations, told by the state they start in
OrganizeIterates == pc = "organize" /\ done < Len(items)
OrganizeReturns == pc = "organize" /\ done = Len(items)
UndoCalled == pc = "idle" /\ runs' = runs + 1 /\ pc' # "organize"
UndoIterates == pc = "undo" /\ done < Len(items)
UndoReturns == pc = "undo" /\ done = Len(items)

\* the file the running organize loop is about to process
CurrentFile == items[done + 1]

\* the record the running undo loop is about to process
CurrentRecord == items[done + 1]

\* stem + tag + N + suffix, next to p
Tagged(p, tag, n) == [dir |-> p.dir, stem |-> p.stem \o tag \o ToString(n), suffix |-> p.suffix]

\* the path of file id in a filesystem that holds it
PathOf(fsx, id) == CHOOSE q \in DOMAIN fsx : fsx[q] = id

Holds(fsx, id) == \E q \in DOMAIN fsx : fsx[q] = id

\* every file of fsx other than those at the paths in `except` is in fsy at
\* the same path with the same content
Untouched(fsx, fsy, except) ==
    \A q \in DOMAIN fsx \ except : q \in DOMAIN fsy /\ fsy[q] = fsx[q]

\* the files whose path differs between fsx and fsy
Moved(fsx, fsy) == {q \in DOMAIN fsx : q \notin DOMAIN fsy \/ fsy[q] # fsx[q]}

-----------------------------------------------------------------------------
\* C1: one loop iteration of organize_folder, i.e. one call safe_move(src,
\* dest), never overwrites: every file other than src (the file at dest
\* included) is still at its path with its content, and when the call
\* returns, src has left its path and sits at a path that was unused before:
\* dest when dest was free, otherwise stem_dupN+suffix for the smallest N
\* whose path was unused.
C1_SafeMoveNeverOverwrites ==
    [][ OrganizeIterates =>
          LET src == CurrentFile
              dest == DestOf(src)
              n == Cardinality(DOMAIN fs) + 1
          IN  /\ Untouched(fs, fs', {src})
              /\ Cardinality(DOMAIN fs') = Cardinality(DOMAIN fs)
              /\ Len(moves') > Len(moves) =>
                   /\ src \notin DOMAIN fs'
                   /\ LET t == PathOf(fs', fs[src])
                      IN  /\ Holds(fs', fs[src])
                          /\ ~Exists(fs, dirs', t)
                          /\ moves'[Len(moves')] = MoveRecord(src, t)
                          /\ IF ~Exists(fs, dirs', dest) THEN t = dest
                             ELSE \E k \in 1..n :
                                    /\ t = Tagged(dest, "_dup", k)
                                    /\ \A j \in 1..(k - 1) :
                                         Exists(fs, dirs', Tagged(dest, "_dup", j))
    ]_vars

\* C1 witness: safe_move has just put a file at a_dup2 because both a and
\* a_dup1 were taken in the category folder.
C1_Witness ==
    /\ pc = "organize"
    /\ moves # <<>>
    /\ moves[Len(moves)].new = [dir |-> "DOCS", stem |-> "a_dup2", suffix |-> TXT]
    /\ [dir |-> "DOCS", stem |-> "a", suffix |-> TXT] \in DOMAIN fs
    /\ [dir |-> "DOCS", stem |-> "a_dup1", suffix |-> TXT] \in DOMAIN fs
    /\ [dir |-> "DOCS", stem |-> "a_dup2", suffix |-> TXT] \in DOMAIN fs

-----------------------------------------------------------------------------
\* The round trip: an organize run that wrote the journal, then only file
\* creations by the user, then the undo that is now returning.
RoundTripEnds == UndoReturns /\ trip = "organized"

\* the journal records of the round trip, and the file each one moved
TripMoves == UNDO_FILE.moves
TripFile(i) == startFs[TripMoves[i].new]

\* C2 as stated: after organize followed by undo, every moved file is back at
\* its original path if no new file appeared at that path in between, and at
\* a disambiguated alternate path next to it otherwise; no journal remains.
C2_RoundTripAsStated ==
    [][ RoundTripEnds =>
          /\ UNDO_FILE' = NoJournal
          /\ \A i \in 1..Len(TripMoves) :
               LET orig == TripMoves[i].orig
               IN  IF orig \notin appeared
                   THEN orig \in DOMAIN fs' /\ fs'[orig] = TripFile(i)
                   ELSE \E k \in 1..(Cardinality(DOMAIN fs) + 1) :
                          /\ Tagged(orig, "_restored", k) \in DOMAIN fs'
                          /\ fs'[Tagged(orig, "_restored", k)] = TripFile(i)
    ]_vars

\* the original path of record i is taken when the undo reaches it: by a file
\* that appeared in between, by a category folder the organize run created
\* under that name, or by another file this undo restored under that name
OrigTaken(i) ==
    LET orig == TripMoves[i].orig
    IN  \/ orig \in appeared
        \/ IsDir(dirs, orig)
        \/ \E j \in 1..Len(TripMoves) :
             j # i /\ orig \in DOMAIN fs /\ fs[orig] = TripFile(j)

\* C2, amended: after organize followed by undo, every moved file is back at
\* its original path unless that path is taken when the undo reaches it (by
\* a file that appeared in between, by a category folder of that name, or by
\* another file the undo restored under that name), and then it is at
\* stem_restoredN+suffix next to the original, the occupant being left as it
\* was; no journal remains.
C2_RoundTrip ==
    [][ RoundTripEnds =>
          /\ UNDO_FILE' = NoJournal
          /\ fs' = fs
          /\ \A i \in 1..Len(TripMoves) :
               LET orig == TripMoves[i].orig
               IN  IF ~OrigTaken(i)
                   THEN orig \in DOMAIN fs /\ fs[orig] = TripFile(i)
                   ELSE /\ \E k \in 1..(Cardinality(DOMAIN fs) + 1) :
                             /\ Tagged(orig, "_restored", k) \in DOMAIN fs
                             /\ fs[Tagged(orig, "_restored", k)] = TripFile(i)
                        /\ orig \in appeared =>
                             orig \in DOMAIN fs /\ fs[orig] = startFs[orig]
    ]_vars

\* C2 witness: a round trip has ended in which a_restored1 came back to its
\* original path and the file from a, whose path was taken by a new file,
\* came back as a_restored2.
C2_Witness ==
    /\ pc = "idle"
    /\ trip = "undone"
    /\ result.op = "undo"
    /\ result.count = 2
    /\ appeared = {Top("a", TXT)}
    /\ Top("a", TXT) \in DOMAIN fs
    /\ Top("a_restored1", TXT) \in DOMAIN fs
    /\ Top("a_restored2", TXT) \in DOMAIN fs

-----------------------------------------------------------------------------
\* a step of organize_folder or undo_last_operation
OperationStep == pc # "idle" \/ runs' # runs

\* C3: no step of organize or undo deletes or overwrites a file: every file
\* that existed before the step exists after it with the same content, at
\* its old path or at a path that was unused; and when an operation returns,
\* every file that existed when it started still exists.
C3_NoDataLoss ==
    [][ OperationStep =>
          /\ \A p \in DOMAIN fs :
               \E q \in DOMAIN fs' :
                  /\ fs'[q] = fs[p]
                  /\ q = p \/ ~Exists(fs, dirs, q)
          /\ Cardinality(DOMAIN fs') = Cardinality(DOMAIN fs)
          /\ (OrganizeReturns \/ UndoReturns) =>
               \A p \in DOMAIN startFs : Holds(fs', startFs[p])
    ]_vars

\* C3 witness: an undo has returned after restoring two files next to a file
\* created in between, and every file ever created is still there.
C3_Witness ==
    /\ pc = "idle"
    /\ result.op = "undo"
    /\ result.count >= 2
    /\ nextId = MaxFiles + 1
    /\ \A id \in 1..MaxFiles : Holds(fs, id)
    /\ \E p \in DOMAIN fs : p.stem = "a_restored1"

-----------------------------------------------------------------------------
\* C4: undo is single-use.  When undo_last_operation has processed a journal
\* and returns, the journal is absent, however many records it restored; an
\* undo called after that with no organize in between reports "no undo data",
\* returns a restored count of 0 and moves no file.
C4_UndoSingleUse ==
    [][ /\ UndoReturns => UNDO_FILE' = NoJournal
        /\ (UndoCalled /\ undone) =>
             /\ result' = UndoResult(0, 0, NoUndoData)
             /\ pc' = "idle"
             /\ fs' = fs
    ]_vars

\* C4 witness: a second undo has just answered "no undo data" after a first
\* one that had restored only part of its journal.
C4_Witness ==
    /\ pc = "idle"
    /\ undone
    /\ skipped > 0
    /\ result = UndoResult(0, 0, NoUndoData)
    /\ \E p \in DOMAIN fs : p.dir = ""

-----------------------------------------------------------------------------
\* what the best-effort loop does with one file, whatever the totals
C5_PerFile ==
    OrganizeIterates =>
      /\ pc' = "organize"
      /\ done' = done + 1
      /\ \/ /\ Len(moves') = Len(moves) + 1
            /\ errors' = errors
            /\ CurrentFile \notin DOMAIN fs'
         \/ /\ moves' = moves
            /\ errors' = errors + 1
            /\ fs' = fs

\* C5 as stated: a failing file stays where it is, adds one error entry and
\* the rest is still processed; moved_count is the number of files actually
\* moved, and moved_count plus the number of errors equals the number of
\* immediate files enumerated.
C5_BestEffortAsStated ==
    [][ /\ C5_PerFile
        /\ OrganizeReturns =>
             /\ result'.count = Cardinality(Moved(startFs, fs))
             /\ result'.count + result'.errors = Len(items)
    ]_vars

\* C5, amended: a failing file stays where it is, adds one error entry and
\* the rest is still processed; moved_count is the number of files actually
\* moved; when the folder could be listed, moved_count plus the number of
\* errors equals the number of immediate files enumerated, and when listing
\* the folder raised, organize returns moved_count 0 and exactly one error
\* entry with no file enumerated.
C5_BestEffort ==
    [][ /\ C5_PerFile
        /\ OrganizeReturns =>
             /\ result'.count = Cardinality(Moved(startFs, fs))
             /\ listed =>
                  /\ Len(items) = Cardinality(TopFiles(startFs))
                  /\ result'.count + result'.errors = Len(items)
             /\ ~listed =>
                  /\ Len(items) = 0
                  /\ result'.count = 0
                  /\ result'.errors = 1
                  /\ fs = startFs
    ]_vars

\* C5 witness: an organize run has returned with one file moved and one
\* file failed.
C5_Witness ==
    /\ pc = "idle"
    /\ result.op = "organize"
    /\ result.count = 1
    /\ result.errors = 1
    /\ Top("OTHERS", NoSuffix) \in DOMAIN fs
    /\ [dir |-> "DOCS", stem |-> "a", suffix |-> TXT] \in DOMAIN fs

-----------------------------------------------------------------------------
\* C6: an organize run that moves no file writes no journal and leaves the
\* journal of an earlier run as it was, from its call to its return; and an
\* undo that finds a well-formed journal processes exactly that journal's
\* records, last first.
C6_ZeroMovesKeepJournal ==
    [][ /\ ( /\ pc = "organize" \/ pc' = "organize"
             /\ ~(OrganizeReturns /\ fs # startFs) ) => UNDO_FILE' = UNDO_FILE
        /\ (UndoCalled /\ WellFormed(UNDO_FILE)) =>
             /\ pc' = "undo"
             /\ Len(items') = Len(UNDO_FILE.moves)
             /\ \A i \in 1..Len(items') :
                  items'[i] = UNDO_FILE.moves[Len(items') + 1 - i]
    ]_vars

\* C6 witness: an organize run in which every move failed has returned and
\* the journal of the earlier run is still in place.
C6_Witness ==
    /\ pc = "idle"
    /\ result.op = "organize"
    /\ result.count = 0
    /\ result.errors >= 1
    /\ WellFormed(UNDO_FILE)
    /\ \A i \in 1..Len(UNDO_FILE.moves) : UNDO_FILE.moves[i].new \in DOMAIN fs

-----------------------------------------------------------------------------
\* the position of x in the sequence s
Pos(s, x) == CHOOSE k \in 1..Len(s) : s[k] = x

\* C7: when an organize run that moved at least one file returns, the
\* journal is a well-formed record holding one (orig, new) record for each
\* file the run moved and no other record, in the order the files were
\* processed.
C7_SingleSlotJournal ==
    [][ (OrganizeReturns /\ fs # startFs) =>
          LET J == UNDO_FILE'.moves
          IN  /\ WellFormed(UNDO_FILE')
              /\ Len(J) = Cardinality(Moved(startFs, fs))
              /\ \A i \in 1..Len(J) :
                   /\ J[i].orig \in Moved(startFs, fs)
                   /\ J[i].new \in DOMAIN fs
                   /\ fs[J[i].new] = startFs[J[i].orig]
              /\ \A i, j \in 1..Len(J) :
                   i < j => Pos(items, J[i].orig) < Pos(items, J[j].orig)
    ]_vars

\* C7 witness: a second organize run has returned; the journal holds its one
\* move and not the move of the first run, whose file is still in the
\* category folder.
C7_Witness ==
    /\ pc = "idle"
    /\ result.op = "organize"
    /\ result.count = 1
    /\ WellFormed(UNDO_FILE)
    /\ Len(UNDO_FILE.moves) = 1
    /\ UNDO_FILE.moves[1].new = [dir |-> "DOCS", stem |-> "a_dup1", suffix |-> TXT]
    /\ [dir |-> "DOCS", stem |-> "a", suffix |-> TXT] \in DOMAIN fs
    /\ [dir |-> "DOCS", stem |-> "a_dup1", suffix |-> TXT] \in DOMAIN fs

-----------------------------------------------------------------------------
\* the running undo is at a well-formed record whose moved file is gone
RecordFileGone == UndoIterates /\ CurrentRecord.ok /\ ~Exists(fs, dirs, CurrentRecord.new)

\* what undo does with such a record
C8_Skip ==
    RecordFileGone =>
      /\ fs' = fs
      /\ restored' = restored
      /\ done' = done + 1
      /\ pc' = "undo"

\* C8 as stated: a record whose moved file is gone is skipped, is not counted
\* in restored_count, the remaining records are still processed, and the
\* returned message notes that errors occurred.
C8_SkipAsStated ==
    [][ /\ C8_Skip
        /\ (UndoReturns /\ skipped > 0) => result'.msg = RestoredWithErrorsMsg
    ]_vars

\* C8, amended: a record whose moved file is gone is skipped silently: no
\* file is touched, it is not counted in restored_count (which is the number
\* of files the undo moved), the remaining records are still processed, and
\* the skip adds no error note: the returned message notes errors exactly
\* when restoring some record raised an exception.
C8_SkipIsSilent ==
    [][ /\ C8_Skip
        /\ UndoReturns =>
             /\ result'.count = Cardinality(Moved(startFs, fs))
             /\ result'.msg = RestoredWithErrorsMsg <=>
                  \E i \in 1..Len(items) : ~items[i].ok
             /\ result'.msg \in {RestoredMsg, RestoredWithErrorsMsg}
    ]_vars

\* C8 witness: an undo has returned after skipping one record and restoring
\* another, and its message carries no error note.
C8_Witness ==
    /\ pc = "idle"
    /\ result.op = "undo"
    /\ result.count = 1
    /\ skipped = 1
    /\ result.msg = RestoredMsg

-----------------------------------------------------------------------------
\* the running undo is at a well-formed record whose moved file exists
RecordFileThere == UndoIterates /\ CurrentRecord.ok /\ Exists(fs, dirs, CurrentRecord.new)

\* C9: for a record whose moved file exists, undo restores the file to the
\* original path when nothing occupies that path; when something does, the
\* occupant stays as it was and the file goes to stem_restoredN+suffix in the
\* same directory for the smallest N whose path is unused; either way
\* restored_count grows by one and no other file is touched.
C9_RestoreNeverOverwrites ==
    [][ RecordFileThere =>
          LET orig == CurrentRecord.orig
              new == CurrentRecord.new
              n == Cardinality(DOMAIN fs) + 1
          IN  /\ restored' = restored + 1
              /\ Untouched(fs, fs', {new})
              /\ new \notin DOMAIN fs'
              /\ IF ~Exists(fs, dirs, orig)
                 THEN orig \in DOMAIN fs' /\ fs'[orig] = fs[new]
                 ELSE \E k \in 1..n :
                        /\ Tagged(orig, "_restored", k) \notin DOMAIN fs
                        /\ Tagged(orig, "_restored", k) \in DOMAIN fs'
                        /\ fs'[Tagged(orig, "_restored", k)] = fs[new]
                        /\ \A j \in 1..(k - 1) :
                             Exists(fs, dirs, Tagged(orig, "_restored", j))
    ]_vars

\* C9 witness: the running undo has restored one file to its original path
\* and another, whose original path a and first alternate a_restored1 were
\* both taken, to a_restored2.
C9_Witness ==
    /\ pc = "undo"
    /\ done = 2
    /\ restored = 2
    /\ Top("a", TXT) \in DOMAIN fs
    /\ Top("a_restored1", TXT) \in DOMAIN fs
    /\ Top("a_restored2", TXT) \in DOMAIN fs
    /\ fs[Top("a_restored1", TXT)] = startFs[[dir |-> "DOCS", stem |-> "a_restored1", suffix |-> TXT]]

-----------------------------------------------------------------------------
\* C10: a journal file that is there but is no well-formed {timestamp, moves}
\* record is treated as absent: undo does not raise, reports "no undo data"
\* with a restored count of 0, and moves no file.
C10_CorruptJournalIsAbsent ==
    [][ (UndoCalled /\ UNDO_FILE.kind # "absent" /\ ~WellFormed(UNDO_FILE)) =>
          /\ ~result'.raised
          /\ result' = UndoResult(0, 0, NoUndoData)
          /\ pc' = "idle"
          /\ fs' = fs
    ]_vars

-----------------------------------------------------------------------------
\* the categories whose list holds the queried extension in some letter case
ListedUnder == {c \in Range(categories.order) :
                  \E l \in categories.exts[c] : Lower(l) = Lower(query)}

\* C11: find_category is total and case-insensitive: when some category
\* lists the queried extension, in whatever letter case the query and the
\* listed entry are written, the call returns a category that lists it; when
\* no category lists it (the empty extension included), it returns "OTHERS".
C11_FindCategoryCaseInsensitive ==
    answer # "" =>
        IF ListedUnder # {} THEN answer \in ListedUnder ELSE answer = "OTHERS"

-----------------------------------------------------------------------------
\* the files of the folder whose digest is h
FilesWith(h) == {p \in 1..Len(entries) : entries[p].is_file /\ entries[p].md5 = h}

\* the files that a returned group lists
Grouped == UNION {Range(dup[h]) : h \in DOMAIN dup}

\* C12: find_duplicates returns no singleton group: each group of the
\* returned mapping has at least 2 members, holds every file of the folder
\* with that digest exactly once, in discovery order with the first-seen file
\* first, and a file whose digest is unique or could not be computed is in
\* no group.
C12_NoSingletonGroup ==
    returned =>
        /\ \A h \in DOMAIN dup :
             /\ Len(dup[h]) >= 2
             /\ Range(dup[h]) = FilesWith(h)
             /\ Len(dup[h]) = Cardinality(FilesWith(h))
             /\ \A i, j \in 1..Len(dup[h]) : i < j => dup[h][i] < dup[h][j]
        /\ \A p \in 1..Len(entries) :
             (\/ ~entries[p].is_file
              \/ entries[p].md5 = None
              \/ FilesWith(entries[p].md5) = {p}) => p \notin Grouped

\* C12 witness: a scan has returned one group of three files, the first of
\* them first, and left out a file with a digest of its own.
C12_Witness ==
    /\ returned
    /\ \E h \in DOMAIN dup : Len(dup[h]) = 3 /\ dup[h][1] = map_hash[h]
    /\ \E p \in 1..Len(entries) :
         entries[p].is_file /\ entries[p].md5 \in Hashes /\ p \notin Grouped

-----------------------------------------------------------------------------
\* on_done of scan k has run
OnDoneRan(k) == workers[k].pc = "exit" /\ k \notin Range(after)

\* C13: the duplicates view in the frame belongs to the most recently started
\* scan and never shows the result of an earlier one, in whatever order the
\* workers finish: it shows no row until the on_done of its own scan has
\* run, and exactly the rows of that scan's result afterwards.
C13_ViewShowsLatestScan ==
    dup_frame # 0 =>
        /\ dup_frame = Len(workers)
        /\ tv[dup_frame].exists
        /\ IF OnDoneRan(dup_frame)
           THEN /\ tv[dup_frame].rows = Rows(workers[dup_frame].result)
                /\ tv[dup_frame].status # ScanningText
           ELSE /\ tv[dup_frame].rows = {}
                /\ tv[dup_frame].status = ScanningText

\* C13 witness: scan 2 was started while scan 1 was in flight; both workers
\* finished, scan 1 with duplicates that its on_done could no longer show,
\* and the view shows the different result of scan 2.
C13_Witness ==
    /\ dup_frame = 2
    /\ OnDoneRan(1)
    /\ OnDoneRan(2)
    /\ Rows(workers[1].result) # {}
    /\ tv[1].rows = {}
    /\ tv[2].rows = Rows(workers[2].result)
    /\ tv[2].rows # {}
    /\ tv[2].rows # Rows(workers[1].result)

-----------------------------------------------------------------------------
\* the organize run that is going on was started right after an organize
\* run that returned no error
AfterCleanOrganize == result.op = "organize" /\ result.errors = 0

\* the files inside the subfolders
InSubfolders(fsx) == {q \in DOMAIN fsx : q.dir # ""}

\* C14: organize_folder processes only the immediate file children of the
\* folder: no step of a run moves or renames a file that is inside a
\* subfolder (a category folder of an earlier run included), and a run
\* started right after a run without errors returns 0 moved files and leaves
\* the file layout as it found it.
C14_OnlyImmediateChildren ==
    [][ /\ pc = "organize" =>
              \A q \in InSubfolders(fs) : q \in DOMAIN fs' /\ fs'[q] = fs[q]
        /\ OrganizeIterates => CurrentFile.dir = ""
        /\ (OrganizeReturns /\ AfterCleanOrganize) =>
              /\ result'.op = "organize"
              /\ result'.count = 0
              /\ fs' = startFs
              /\ UNDO_FILE' = UNDO_FILE
    ]_vars

\* C14 witness: an organize run started right after a run that moved two
\* files without error has enumerated the folder, found nothing to process
\* beside the two files in the category folder, and is about to return.
C14_Witness ==
    /\ OrganizeReturns
    /\ AfterCleanOrganize
    /\ result.count = 2
    /\ listed
    /\ items = <<>>
    /\ Cardinality(InSubfolders(fs)) = 2

====
